---- MODULE Spec2Model ----
(***************************************************************************)
(* Rpi-Modbus-Tcp-Gateway: the RS485 acquisition loop                      *)
(* (modbus_server/rs485_handler.py), the GUI consumer of its queue         *)
(* (modbus_server/main.py) and the resilient TCP client                    *)
(* (modbus_client.py), as one state machine.                               *)
(*                                                                         *)
(* Specifications.  Spec: main.py from its import on (configuration, GUI,  *)
(* the two thread starts, mainloop), with the RS485 loop, the GUI's        *)
(* process_queue and log_data_point timers and the TCP client.  SpecLoops: *)
(* the RS485 loop, process_queue and the TCP client, main.py past its      *)
(* start-up.  SpecMain: the start-up of main.py.  SpecCalc: the register   *)
(* codec and the calibration applied to one input, and one turn of the     *)
(* simulation loop.  SpecScenario: the RS485 loop alone for four cycles,   *)
(* the outcome of each poll recorded.  SpecLive: the RS485 loop alone,     *)
(* running for ever on a link that recovers, under weak fairness of the    *)
(* thread.  SpecHistory: the GUI's process_queue and log_data_point on the *)
(* messages of one poll cycle.  SpecGui: process_queue on every short      *)
(* queue content.                                                          *)
(*                                                                         *)
(* Numbers.  A float is a record [cls, neg, man, exp].  cls is "fin" (the   *)
(* value is man * 2^exp, man a natural of exactly 53 bits, or 0.0 with man *)
(* empty), "inf", "nan", "text" (a string that is no number), "none"       *)
(* (Python's None) or "time" (a status text, of which exp keeps the        *)
(* second of the clock).  man is a sequence of limbs below 2^10, the least *)
(* significant first.  The arithmetic is that of IEEE 754 doubles: every   *)
(* operation rounds its exact result to the nearest double, a tie to the   *)
(* even one.  No value met underflows the normal range of a double.        *)
(***************************************************************************)
EXTENDS Integers, Sequences, FiniteSets, TLC

(***************************************************************************)
(* Bounds of the exploration.                                              *)
(***************************************************************************)
MaxSleeps == 2        \* time.sleep calls of the RS485 loop
MaxClock == 1         \* seconds the wall clock advances
MaxClientTurns == 2   \* turns of the TCP client's while loop
QueueK == 3           \* the capacity the bounded-queue property is stated for
MaxLogCalls == 63     \* calls of log_data_point, the one of __init__ included
MaxLogCallsAll == 2   \* the same, with every thread running
MaxQueued == 3        \* messages waiting in the queue when the consumer begins
MaxSetBacks == 1      \* times the local clock is put back an hour
MaxGpioTurns == 2     \* turns of the loop of the GPIO inputs

(***************************************************************************)
(* Program constants.                                                      *)
(***************************************************************************)
MODE_WANTED == 1         \* the mode the loop configures
EXPECTED_REGISTERS == 2  \* len(raw_registers) == 2
SCALE == 100             \* int(concentration_value * 100)
ADDR_CONDUCTIVITY == 0   \* WriteAddress, as the client reads it
ADDR_CONCENTRATION == 2  \* WriteAddressConcentration, as the client reads it
CLIENT_READ_COUNT == 3   \* count=3 of the client's read_holding_registers
HR_SIZE == 4             \* holding registers modelled (of the 100 of the block)
maxsize == 0             \* queue.Queue(): maxsize 0, no upper bound

RequiredFields ==
    {"SlaveID", "Port", "Baudrate", "PollInterval", "ReadAddress", "ReadCount",
     "WriteAddress", "WriteAddressConcentration"}

(***************************************************************************)
(* What the instrument can answer.  A pair is [reg0, reg1] as received:    *)
(* reg1 is the high word.  45501.25 = 0x4731BD40, whose concentration times*)
(* 100 is 406 but for the rounding of the doubles; 0.0; and a quiet NaN.   *)
(***************************************************************************)
SensorPairs == { <<48448, 18225>>, <<0, 0>>, <<0, 32704>> }
WrongLengthPayloads == { <<20480>>, <<20480, 17987, 0>> }
ModePayloads == { <<0>>, <<1>> }

(***************************************************************************)
(* Naturals of any size, as sequences of limbs.                            *)
(***************************************************************************)
RECURSIVE Pow2(_)
Pow2(n) == IF n = 0 THEN 1 ELSE 2 * Pow2(n - 1)

RECURSIVE Log2(_)
Log2(n) == IF n <= 1 THEN 0 ELSE 1 + Log2(n \div 2)

Limb == Pow2(10)

RECURSIVE Trim(_)
Trim(a) == IF a # <<>> /\ a[Len(a)] = 0 THEN Trim(SubSeq(a, 1, Len(a) - 1)) ELSE a

RECURSIVE Big(_)
Big(n) == IF n = 0 THEN <<>> ELSE <<n % Limb>> \o Big(n \div Limb)

RECURSIVE BigAddCarry(_, _, _)
BigAddCarry(a, b, carry) ==
    IF a = <<>> /\ b = <<>> THEN Big(carry)
    ELSE LET x == (IF a = <<>> THEN 0 ELSE Head(a)) + (IF b = <<>> THEN 0 ELSE Head(b))
                  + carry
         IN  <<x % Limb>> \o BigAddCarry(IF a = <<>> THEN <<>> ELSE Tail(a),
                                         IF b = <<>> THEN <<>> ELSE Tail(b), x \div Limb)

BigAdd(a, b) == BigAddCarry(a, b, 0)

RECURSIVE BigSubBorrow(_, _, _)
BigSubBorrow(a, b, borrow) ==
    IF a = <<>> THEN <<>>
    ELSE LET x == Head(a) - (IF b = <<>> THEN 0 ELSE Head(b)) - borrow
         IN  <<(x + Limb) % Limb>>
             \o BigSubBorrow(Tail(a), IF b = <<>> THEN <<>> ELSE Tail(b),
                             IF x < 0 THEN 1 ELSE 0)

\* a - b, for a >= b.
BigSub(a, b) == Trim(BigSubBorrow(a, b, 0))

\* -1, 0 or 1 as a is below, equal to or above b.
RECURSIVE BigCmp(_, _)
BigCmp(a, b) ==
    IF Len(a) # Len(b) THEN (IF Len(a) < Len(b) THEN -1 ELSE 1)
    ELSE IF a = <<>> THEN 0
    ELSE IF a[Len(a)] # b[Len(b)] THEN (IF a[Len(a)] < b[Len(b)] THEN -1 ELSE 1)
    ELSE BigCmp(SubSeq(a, 1, Len(a) - 1), SubSeq(b, 1, Len(b) - 1))

RECURSIVE BigScaleCarry(_, _, _)
BigScaleCarry(a, k, carry) ==
    IF a = <<>> THEN Big(carry)
    ELSE LET x == Head(a) * k + carry
         IN  <<x % Limb>> \o BigScaleCarry(Tail(a), k, x \div Limb)

\* a * k, for an integer k below 2^20.
BigScale(a, k) == Trim(BigScaleCarry(a, k, 0))

RECURSIVE BigMul(_, _)
BigMul(a, b) ==
    IF a = <<>> \/ b = <<>> THEN <<>>
    ELSE LET rest == BigMul(a, Tail(b))
         IN  BigAdd(BigScale(a, Head(b)), IF rest = <<>> THEN <<>> ELSE <<0>> \o rest)

RECURSIVE BigDivLimbs(_, _)
BigDivLimbs(a, d) ==
    IF a = <<>> THEN [q |-> <<>>, r |-> 0]
    ELSE LET up == BigDivLimbs(Tail(a), d)
             x == up.r * Limb + Head(a)
         IN  [q |-> <<x \div d>> \o up.q, r |-> x % d]

\* Quotient and remainder of a by an integer d below 2^20.
BigDiv(a, d) == [q |-> Trim(BigDivLimbs(a, d).q), r |-> BigDivLimbs(a, d).r]

LimbBits == Log2(Limb)

\* a * 2^n and the whole part of a / 2^n.
BigShl(a, n) ==
    IF a = <<>> THEN <<>>
    ELSE [i \in 1 .. n \div LimbBits |-> 0] \o BigScale(a, Pow2(n % LimbBits))

BigShr(a, n) ==
    IF n \div LimbBits >= Len(a) THEN <<>>
    ELSE BigDiv(SubSeq(a, n \div LimbBits + 1, Len(a)), Pow2(n % LimbBits)).q

BitLen(a) == IF a = <<>> THEN 0 ELSE LimbBits * (Len(a) - 1) + Log2(a[Len(a)]) + 1

RECURSIVE BigValue(_)
BigValue(a) == IF a = <<>> THEN 0 ELSE Head(a) + Limb * BigValue(Tail(a))

\* q or q + 1, as the part cut off compares with one half (c): above it, or
\* equal to it with q odd, rounds up.
RoundUpWhen(q, c) ==
    IF c = 1 \/ (c = 0 /\ q # <<>> /\ q[1] % 2 = 1) THEN BigAdd(q, <<1>>) ELSE q

\* The same, for q the whole part of m / 2^s.
RoundQuotient(q, m, s) ==
    RoundUpWhen(q, BigCmp(BigSub(m, BigShl(q, s)), BigShl(<<1>>, s - 1)))

\* m / 2^s rounded to the nearest natural, a tie to the even one.
RoundShift(m, s) == IF s = 0 THEN m ELSE RoundQuotient(BigShr(m, s), m, s)

(***************************************************************************)
(* Python's float: the IEEE 754 double.                                    *)
(***************************************************************************)
DOUBLE_BITS == 53
DOUBLE_MAX_EXP == 1024 - DOUBLE_BITS

\* The largest integer the model keeps as such, 2^31 - 1; it stands for every
\* one above.
MAX_INT == 2 * (Pow2(30) - 1) + 1

Float(cls, neg, man, exp) == [cls |-> cls, neg |-> neg, man |-> man, exp |-> exp]
Special(cls, neg) == Float(cls, neg, <<>>, 0)
None == Special("none", FALSE)
NaN == Special("nan", FALSE)
Inf(neg) == Special("inf", neg)
Zero == Float("fin", FALSE, <<>>, 0)
IsZero(x) == x.cls = "fin" /\ x.man = <<>>

\* The text of a status message: time.strftime('%H:%M:%S') at second t.
Time(t) == Float("time", FALSE, <<>>, t)

\* The bits of m beyond the 53 a double keeps.
Excess(m) == IF BitLen(m) > DOUBLE_BITS THEN BitLen(m) - DOUBLE_BITS ELSE 0

\* man * 2^exp as a double, an infinity when it is out of range.
Finite(neg, man, exp) ==
    IF exp > DOUBLE_MAX_EXP THEN Inf(neg) ELSE Float("fin", neg, man, exp)

\* q * 2^e, q of at most 54 bits, with the mantissa brought to 53 bits.
Normalise(neg, q, e) ==
    Finite(neg,
           IF BitLen(q) > DOUBLE_BITS THEN BigShr(q, 1)
           ELSE BigShl(q, DOUBLE_BITS - BitLen(q)),
           IF BitLen(q) > DOUBLE_BITS THEN e + 1 ELSE e - (DOUBLE_BITS - BitLen(q)))

\* The double nearest to m * 2^e, of the sign given.
Round(neg, m, e) ==
    IF m = <<>> THEN Float("fin", neg, <<>>, 0)
    ELSE Normalise(neg, RoundShift(m, Excess(m)), e + Excess(m))

\* The double nearest to (d.q + d.r / den) / 2^k: the remainder only says
\* whether the quotient is exact.
RoundQuotientOf(d, k) ==
    Round(FALSE, BigAdd(BigScale(d.q, 2), Big(IF d.r = 0 THEN 0 ELSE 1)), 0 - k - 1)

\* The double nearest to num / den, for naturals num and 0 < den < 2^20: a
\* decimal literal of the source, and an int divided by a float that is whole.
Double(num, den) ==
    RoundQuotientOf(BigDiv(BigShl(Big(num), 64 + Log2(den)), den), 64 + Log2(den))

\* a * b.
fmul(a, b) ==
    IF a.cls = "nan" \/ b.cls = "nan" THEN NaN
    ELSE IF a.cls = "inf" \/ b.cls = "inf"
    THEN (IF IsZero(a) \/ IsZero(b) THEN NaN ELSE Inf(a.neg # b.neg))
    ELSE Round(a.neg # b.neg, BigMul(a.man, b.man), a.exp + b.exp)

\* x * 2^e of sign aneg plus y * 2^e of sign bneg, neither being zero.
AddAligned(aneg, x, bneg, y, e) ==
    IF aneg # bneg /\ BigCmp(x, y) = 0 THEN Zero
    ELSE Round(IF aneg = bneg \/ BigCmp(x, y) = 1 THEN aneg ELSE bneg,
               IF aneg = bneg THEN BigAdd(x, y)
               ELSE IF BigCmp(x, y) = 1 THEN BigSub(x, y) ELSE BigSub(y, x),
               e)

MinExp(a, b) == IF a.exp < b.exp THEN a.exp ELSE b.exp

\* a + b.
fadd(a, b) ==
    IF a.cls = "nan" \/ b.cls = "nan" THEN NaN
    ELSE IF a.cls = "inf" \/ b.cls = "inf"
    THEN (IF a.cls = b.cls THEN (IF a.neg = b.neg THEN a ELSE NaN)
          ELSE IF a.cls = "inf" THEN a ELSE b)
    ELSE IF IsZero(a) THEN (IF IsZero(b) THEN Float("fin", a.neg /\ b.neg, <<>>, 0) ELSE b)
    ELSE IF IsZero(b) THEN a
    ELSE AddAligned(a.neg, BigShl(a.man, a.exp - MinExp(a, b)),
                    b.neg, BigShl(b.man, b.exp - MinExp(a, b)), MinExp(a, b))

\* a - b.
fsub(a, b) == fadd(a, [b EXCEPT !.neg = ~b.neg])

CmpMagnitude(a, b) ==
    IF IsZero(a) \/ IsZero(b)
    THEN (IF IsZero(a) /\ IsZero(b) THEN 0 ELSE IF IsZero(a) THEN -1 ELSE 1)
    ELSE IF a.cls = "inf" \/ b.cls = "inf"
    THEN (IF a.cls = b.cls THEN 0 ELSE IF a.cls = "inf" THEN 1 ELSE -1)
    ELSE IF a.exp # b.exp THEN (IF a.exp < b.exp THEN -1 ELSE 1)
    ELSE BigCmp(a.man, b.man)

Sign(a) == IF IsZero(a) THEN 0 ELSE IF a.neg THEN -1 ELSE 1

\* -1, 0 or 1 as a is below, equal to or above b, neither being a NaN.
Cmp(a, b) ==
    IF Sign(a) # Sign(b) THEN (IF Sign(a) < Sign(b) THEN -1 ELSE 1)
    ELSE Sign(a) * CmpMagnitude(a, b)

\* a < b: False when either is a NaN.
Less(a, b) == a.cls # "nan" /\ b.cls # "nan" /\ Cmp(a, b) = -1

\* A natural as the integer the model keeps.
Saturated(whole) ==
    IF BitLen(whole) > Log2(MAX_INT) + 1 THEN MAX_INT ELSE BigValue(whole)

\* int(x) for a finite x: the whole part, toward zero.
int(x) ==
    (IF x.neg THEN 0 - 1 ELSE 1)
    * Saturated(IF x.exp >= 0 THEN BigShl(x.man, x.exp) ELSE BigShr(x.man, 0 - x.exp))

(***************************************************************************)
(* Register codec: struct.pack('>HH', hi, lo) then struct.unpack('>f'),    *)
(* the float32 read being a double of the same value.                      *)
(***************************************************************************)
unpack_f(hi, lo) ==
    LET neg  == hi \div 32768 = 1
        exp  == (hi % 32768) \div 128
        mant == (hi % 128) * 65536 + lo
    IN  IF exp = 255 THEN (IF mant = 0 THEN Inf(neg) ELSE Special("nan", neg))
        ELSE Round(neg, Big(IF exp = 0 THEN mant ELSE 8388608 + mant),
                   IF exp = 0 THEN 0 - 149 ELSE exp - 150)

\* Variant: the first register taken as the high word.
decode_conductivity_FirstWordHigh(regs) == unpack_f(regs[1], regs[2])

\* conductivity_value of the serial loop: raw_registers[1] is the high word.
decode_conductivity(regs) == unpack_f(regs[2], regs[1])

(***************************************************************************)
(* Calibration: y = 0.000092x - 0.126115, floored at 0.0.                  *)
(***************************************************************************)
\* x < 0: False for -0.0 and for a NaN.
IsNegative(x) == Less(x, Zero)

\* What float() cannot convert: None (TypeError) and a text that is no number
\* (ValueError).
NonNumeric == { None, Special("text", FALSE) }

SLOPE == Double(92, 1000000)
INTERCEPT == Double(126115, 1000000)

\* Line 64: 0.000092 * x - 0.126115.
linear(x) == fsub(fmul(SLOPE, x), INTERCEPT)

\* Variant: the floor on the result left out.
calibrate_NoFloor(x) == IF IsNegative(x) THEN Zero ELSE linear(x)

\* Lines 69-72: a negative result gives 0.0.
floor_at_zero(concentration) == IF IsNegative(concentration) THEN Zero ELSE concentration

\* Lines 57-72: negative input gives 0.0, and so does a negative result.  A
\* NaN compares False both times and is returned.
calibrate(x) == IF IsNegative(x) THEN Zero ELSE floor_at_zero(linear(x))

\* Variant: the conversion error let out of the function.
conductivity_to_concentration_Raising(x) ==
    IF x \in NonNumeric THEN Special("raise", FALSE) ELSE calibrate(x)

\* Lines 54-81.  float(conductivity) raising is caught: the error is logged
\* and 0.0 returned.
conductivity_to_concentration(x) ==
    IF x \in NonNumeric THEN Zero ELSE calibrate(x)

\* The int 100 of line 192, as the float the product takes it for.
HUNDRED == Double(SCALE, 1)

\* concentration_value * 100.
scaled(c) == fmul(c, HUNDRED)

\* int(concentration_value * 100) raises on nan (ValueError) and inf (OverflowError).
\* None * 100 raises too (TypeError).
IntRaises(c) == c.cls = "none" \/ scaled(c).cls \in {"nan", "inf"}

concentration_register_value(c) == int(scaled(c))

\* What lines 188-192 leave for a conductivity and its concentration: the
\* two values, whether int() raises and, when it does not,
\* concentration_register_value.
cycle_values(conductivity_value, concentration_value) ==
    [conductivity_value |-> conductivity_value,
     concentration_value |-> concentration_value,
     raises |-> IntRaises(concentration_value),
     concentration_register_value |->
         IF IntRaises(concentration_value) THEN 0
         ELSE concentration_register_value(concentration_value)]

calibrated_values(conductivity_value) ==
    cycle_values(conductivity_value, conductivity_to_concentration(conductivity_value))

\* Lines 178-192 on the two registers of a poll.
poll_values(regs) == calibrated_values(decode_conductivity(regs))

(***************************************************************************)
(* State.                                                                  *)
(***************************************************************************)
VARIABLES
    config,            \* the fields present in section RS485 of config.ini
    rs_pc,             \* where update_from_rs485_loop stands
    client,            \* the ModbusSerialClient: "none", "closed" or "open"
    is_configured,     \* the one-time configuration flag
    raw_registers,     \* result.registers of the poll being processed
    rs_last_outcome,   \* how the last poll read ended
    hr,                \* holding registers of the slave data store
    data_queue,        \* the queue between the RS485 thread and the GUI
    clock,             \* wall clock, in seconds
    rs_sleeps,         \* time.sleep calls made by the loop
    rs_connect_fails,  \* connect() calls that returned False
    rs_fail_logs,      \* "Reconnection failed" lines logged
    rs_connects,       \* connect() calls that returned True
    rs_reads,          \* read/write requests issued on the session
    rs_cfg_attempts,   \* times the one-time configuration block was entered
    published,         \* every message put on the queue, in order
    processed,         \* every message process_queue took, in order
    last_conductivity_value,
    last_concentration_value,
    advice_var,
    tc_pc,             \* where run_resilient_modbus_client stands
    tc_client,         \* the ModbusTcpClient: "closed" or "open"
    tc_last_outcome,   \* how the client's last read ended
    tc_sleeps,         \* time.sleep calls made by the client
    tc_connect_fails,  \* connect() calls that returned False
    tc_fail_logs,      \* "Connection failed" lines logged
    tc_connects,       \* connect() calls that returned True
    tc_reads,          \* read requests issued by the client
    tc_turns,          \* turns of the client's while loop begun
    rs_polls,          \* how each poll cycle of the RS485 loop ended, in order
    explore,           \* the exploration: its budgets and what history it keeps
    healthy,           \* the serial link has recovered for good
    main,              \* main.py: its place in the start-up, the TCP options
    calc,              \* codec and calibration applied to one input
    history            \* the two history deques of the GUI and the calls that fed them

rs_vars == <<config, rs_pc, client, is_configured, raw_registers, rs_last_outcome,
             hr, data_queue, clock, rs_sleeps, rs_connect_fails, rs_fail_logs,
             rs_connects, rs_reads, rs_cfg_attempts, published, rs_polls>>
gui_vars == <<processed, last_conductivity_value, last_concentration_value, advice_var>>
tc_vars == <<tc_pc, tc_client, tc_last_outcome, tc_sleeps, tc_connect_fails,
             tc_fail_logs, tc_connects, tc_reads, tc_turns>>
aux_vars == <<explore, healthy, main, calc, history>>

\* explore: rs_budget, the sleeps the RS485 loop may make; clock_budget, the
\* seconds the wall clock may advance; rs_trace, whether rs_polls is kept;
\* rs_count, whether the counters and published are kept; log_budget, the
\* calls of log_data_point that may be made.
Exploration(sleeps, seconds, trace, count, logs) ==
    [rs_budget |-> sleeps, clock_budget |-> seconds, rs_trace |-> trace, rs_count |-> count,
     log_budget |-> logs]

\* main: pc, its place in the start-up ("import", "create_gui", "start_rs485",
\* "start_server", "mainloop"); tcp_config, the options UnitID, Host,
\* Port of config.ini, each <<>> or <<value>>; the three globals read from
\* them; server_thread, "none" or "running".
Main(pc, options, id, ip, port, thread) ==
    [pc |-> pc, tcp_config |-> options, DEVICE_ID |-> id, SERVER_IP |-> ip,
     SERVER_PORT |-> port, server_thread |-> thread]

\* calc: pc, the step; order, the word order handed to the register
\* conversion; regs, the register pair as received; conductivity (the value
\* to encode, in a round trip); concentration; register, its scaled value;
\* encoded, convert_to_registers of the value; decoded, convert_from_registers
\* of encoded; store, the holding registers written; client_conductivity and
\* client_concentration, what the TCP client decodes from them; simulated,
\* the three values of a turn of the simulation loop; write_addr, its
\* WriteAddress; written, the address and the words of its setValues; slept,
\* the seconds of each sleep of the loop run; inputs, what setup_gpio
\* returned, each input as the set of states its is_pressed may read;
\* discrete, the discrete inputs 0 .. 2 of the store; client_bits, the
\* bits the TCP client read last.
Calc(pc, order, regs, conductivity) ==
    [pc |-> pc, order |-> order, regs |-> regs, conductivity |-> conductivity,
     concentration |-> None, register |-> 0, encoded |-> <<>>, decoded |-> None,
     store |-> [a \in 0 .. HR_SIZE - 1 |-> 0],
     client_conductivity |-> None, client_concentration |-> None,
     simulated |-> <<>>, write_addr |-> 0, written |-> <<>>, slept |-> <<>>,
     inputs |-> <<>>, discrete |-> <<FALSE, FALSE, FALSE>>, client_bits |-> <<>>]
vars == <<rs_vars, gui_vars, tc_vars, aux_vars>>

ConfigComplete == RequiredFields \subseteq config

\* poll_values, worked out once for each answer the exploration meets.
PollValues == [regs \in SensorPairs |-> poll_values(regs)]
Polled(regs) == PollValues[regs]

(***************************************************************************)
(* The transport session (pymodbus), as spec section 4.3 describes it: a   *)
(* request on a session that is not open fails without I/O; on an open one *)
(* it answers, returns an error object or raises, and a failure may leave  *)
(* the port closed.                                                        *)
(***************************************************************************)
Outcome(kind, regs, open) == [kind |-> kind, registers |-> regs, open |-> open]

TransportOutcomes(session, payloads) ==
    IF session # "open"
    THEN { Outcome("raise", <<>>, FALSE) }
    ELSE { Outcome("ok", p, TRUE) : p \in payloads }
         \cup { Outcome(k, <<>>, o) : k \in {"error", "raise"}, o \in BOOLEAN }

SessionAfter(o) == IF o.open THEN "open" ELSE "closed"

\* The serial link.  Once it has recovered for good, connect() succeeds and a
\* request on the open port is answered, a poll with its two registers.
SerialOutcomes(session, payloads) ==
    IF healthy /\ session = "open"
    THEN { Outcome("ok", p, TRUE) : p \in payloads }
    ELSE TransportOutcomes(session, payloads)

ConnectResults == IF healthy THEN {TRUE} ELSE BOOLEAN

\* ModbusSequentialDataBlock.setValues through context[device_id].setValues(3, ...)
setValues(block, address, values) ==
    [a \in DOMAIN block |->
        IF a >= address /\ a < address + Len(values) THEN values[a - address + 1]
        ELSE block[a]]

\* Variant: the queue built with a capacity, put() waiting while it is full.
CanPut_Bounded(q) == Len(q) < QueueK

\* queue.Queue.put: blocks while a bounded queue is full.
CanPut(q) == maxsize <= 0 \/ Len(q) < maxsize
put(q, item) == Append(q, item)

\* The threads' data with nothing done yet by the consumer or the TCP client,
\* the queue holding the messages put on it so far.
InitThreadsQueued(queue) ==
    /\ config \in {RequiredFields} \cup { RequiredFields \ {f} : f \in RequiredFields }
    /\ client = "none"
    /\ is_configured = FALSE
    /\ raw_registers = <<>>
    /\ rs_last_outcome = "none"
    /\ hr = [a \in 0 .. HR_SIZE - 1 |-> 0]
    /\ data_queue = queue
    /\ clock = 0
    /\ rs_sleeps = 0
    /\ rs_connect_fails = 0
    /\ rs_fail_logs = 0
    /\ rs_connects = 0
    /\ rs_reads = 0
    /\ rs_cfg_attempts = 0
    /\ published = queue
    /\ processed = <<>>
    /\ last_conductivity_value = None
    /\ last_concentration_value = None
    /\ advice_var = "Waiting for data..."
    /\ tc_pc = "check_conn"
    /\ tc_client = "closed"
    /\ tc_last_outcome = "none"
    /\ tc_sleeps = 0
    /\ tc_connect_fails = 0
    /\ tc_fail_logs = 0
    /\ tc_connects = 0
    /\ tc_reads = 0
    /\ tc_turns = 0
    /\ rs_polls = <<>>

\* The state of the threads' data before any of them has taken a step.
InitThreads == InitThreadsQueued(<<>>)

\* The two history deques empty, log_data_point called so many times.
EmptyHistory(calls) ==
    [conductivity_data |-> <<>>, concentration_data |-> <<>>,
     conductivity_logged |-> <<>>, concentration_logged |-> <<>>, calls |-> calls,
     set_backs |-> 0]

\* config.ini holding every option of the TCP side.
FullTcpConfig == [UnitID |-> <<1>>, Host |-> <<"192.168.104.220">>, Port |-> <<502>>]

\* main.py at its import: nothing read, no window, no thread.
MainAtImport ==
    /\ main = Main("import", FullTcpConfig, 0, "", 0, "none")
    /\ history = EmptyHistory(0)

\* main.py past its start-up: the window built, its __init__ having called
\* log_data_point once, and both threads started.
MainStarted ==
    /\ main = Main("mainloop", FullTcpConfig, 1, "192.168.104.220", 502, "running")
    /\ history = EmptyHistory(1)

\* Codec and calibration not being exercised.
CalcIdle == calc = Calc("idle", "little", <<>>, None)

\* The program as python starts it.
Init ==
    /\ InitThreads
    /\ rs_pc = "not_started"
    /\ explore = Exploration(MaxSleeps, MaxClock, FALSE, TRUE, MaxLogCallsAll)
    /\ healthy = FALSE
    /\ MainAtImport
    /\ CalcIdle

\* The threads at their first step, main.py in its mainloop.
InitLoops ==
    /\ InitThreads
    /\ rs_pc = "load_config"
    /\ explore = Exploration(MaxSleeps, MaxClock, FALSE, TRUE, MaxLogCalls)
    /\ healthy = FALSE
    /\ MainStarted
    /\ CalcIdle

(***************************************************************************)
(* update_from_rs485_loop.  One action per request on the session, per     *)
(* write to the data store and per put(): these are the points at which    *)
(* the TCP server thread and the GUI thread can observe the loop.          *)
(* data_point_counter, used only in log lines, is left out; data_queue is  *)
(* the Queue object main passes, so "if data_queue:" is always true.       *)
(***************************************************************************)
\* A counter of the exploration, one step on.
Counted(n) == IF explore.rs_count THEN n + 1 ELSE n

\* The exploration lets a cycle begin while sleeps and queue are within its
\* budget; a cycle puts three messages.
CycleMayBegin ==
    rs_sleeps < explore.rs_budget /\ Len(data_queue) < 3 * explore.rs_budget

\* rs_polls with the end of one more poll cycle, when the history is kept.
Traced(outcome) == IF explore.rs_trace THEN Append(rs_polls, outcome) ELSE rs_polls

RsCounters == <<rs_sleeps, rs_connect_fails, rs_fail_logs, rs_connects, rs_reads,
                rs_cfg_attempts>>

\* time.sleep(poll_interval), then the top of the while loop.  A PollInterval
\* below one second can leave the second of the clock unchanged.
RsSleepAndLoop ==
    /\ rs_sleeps' = Counted(rs_sleeps)
    /\ clock' \in { c \in {clock, clock + 1} : c <= explore.clock_budget }
    /\ raw_registers' = <<>>
    /\ rs_pc' = "check_conn"

\* After the connection check: the one-time block, or straight to the poll.
AfterConnectionCheck == IF is_configured THEN "poll_read" ELSE "cfg_read"

\* Variant: a missing field replaced by a fallback value, the loop started.
LoadConfig_Fallback ==
    /\ rs_pc = "load_config"
    /\ rs_pc' = "check_conn" /\ client' = "closed"
    /\ UNCHANGED <<config, rs_polls, is_configured, raw_registers, rs_last_outcome, hr,
                   data_queue, clock, RsCounters, published, gui_vars, tc_vars, aux_vars>>

\* Lines 97-112: a missing field raises, the function logs and returns.
LoadConfig ==
    /\ rs_pc = "load_config"
    /\ IF ConfigComplete
       THEN rs_pc' = "check_conn" /\ client' = "closed"
       ELSE rs_pc' = "returned" /\ client' = client
    /\ UNCHANGED <<config, rs_polls, is_configured, raw_registers, rs_last_outcome, hr,
                   data_queue, clock, RsCounters, published, gui_vars, tc_vars, aux_vars>>

\* Line 120: the port is open, nothing to do.
RsConnectionOpen ==
    /\ rs_pc = "check_conn"
    /\ CycleMayBegin
    /\ client = "open"
    /\ rs_pc' = AfterConnectionCheck
    /\ UNCHANGED <<config, rs_polls, client, is_configured, raw_registers, rs_last_outcome, hr,
                   data_queue, clock, RsCounters, published, gui_vars, tc_vars, aux_vars>>

\* Variant: the failed connect retried at once, without the sleep.
RsConnectFailed_NoSleep ==
    /\ client' = "closed"
    /\ rs_connect_fails' = Counted(rs_connect_fails)
    /\ rs_fail_logs' = Counted(rs_fail_logs)
    /\ rs_pc' = "check_conn"
    /\ UNCHANGED <<rs_sleeps, clock, raw_registers, rs_connects>>

\* Lines 122-125: connect() returned False: log, sleep, continue.
RsConnectFailed ==
    /\ client' = "closed"
    /\ rs_connect_fails' = Counted(rs_connect_fails)
    /\ rs_fail_logs' = Counted(rs_fail_logs)
    /\ RsSleepAndLoop
    /\ UNCHANGED rs_connects

\* Lines 120-125: the port is closed; connect() returns True or False.
RsConnect ==
    /\ rs_pc = "check_conn"
    /\ CycleMayBegin
    /\ client # "open"
    /\ \E connected \in ConnectResults :
          IF connected
          THEN /\ client' = "open"
               /\ rs_connects' = Counted(rs_connects)
               /\ rs_pc' = AfterConnectionCheck
               /\ UNCHANGED <<raw_registers, clock, rs_sleeps, rs_connect_fails,
                              rs_fail_logs>>
          ELSE RsConnectFailed
    /\ UNCHANGED <<config, rs_polls, is_configured, rs_last_outcome, hr, data_queue, rs_reads,
                   rs_cfg_attempts, published, gui_vars, tc_vars, aux_vars>>

\* Lines 135-155: the read of register 32 sets the flag on every path that
\* leaves the block (error object, mode already 1, exception); only a mode
\* other than 1 goes on to the write, which sets it.
\* Variant: the flag set only when the mode was read and found to be 1.
ConfigReadSetsFlag_OnlyOnSuccess(o) == o.kind = "ok" /\ o.registers[1] = MODE_WANTED

ConfigReadSetsFlag(o) == ~(o.kind = "ok" /\ o.registers[1] # MODE_WANTED)

\* Lines 130-155, the read of register 32.
RsConfigRead ==
    /\ rs_pc = "cfg_read"
    /\ \E o \in SerialOutcomes(client, ModePayloads) :
          /\ client' = SessionAfter(o)
          /\ is_configured' = (is_configured \/ ConfigReadSetsFlag(o))
          /\ rs_pc' = IF o.kind = "ok" /\ o.registers[1] # MODE_WANTED
                      THEN "cfg_write" ELSE "poll_read"
    /\ rs_reads' = Counted(rs_reads)
    /\ rs_cfg_attempts' = Counted(rs_cfg_attempts)
    /\ UNCHANGED <<config, rs_polls, raw_registers, rs_last_outcome, hr, data_queue, clock,
                   rs_sleeps, rs_connect_fails, rs_fail_logs, rs_connects, published,
                   gui_vars, tc_vars, aux_vars>>

\* Lines 140-155, write_register(address=32, value=1).
RsConfigWrite ==
    /\ rs_pc = "cfg_write"
    /\ \E o \in SerialOutcomes(client, {<<>>}) :
          client' = SessionAfter(o)
    /\ is_configured' = TRUE
    /\ rs_pc' = "poll_read"
    /\ rs_reads' = Counted(rs_reads)
    /\ UNCHANGED <<config, rs_polls, raw_registers, rs_last_outcome, hr, data_queue, clock,
                   rs_sleeps, rs_connect_fails, rs_fail_logs, rs_connects,
                   rs_cfg_attempts, published, gui_vars, tc_vars, aux_vars>>

\* What the loop does with the session after a poll read that ended o:
\* only the outer except (line 212) closes it.
SessionAfterPoll(o) == IF o.kind = "raise" THEN "closed" ELSE SessionAfter(o)

PollOutcomeKind(o) ==
    IF o.kind # "ok" THEN o.kind
    ELSE IF Len(o.registers) = EXPECTED_REGISTERS THEN "ok" ELSE "badlen"

\* Lines 163-164, 170 and 209-216: a poll that gave no two registers is
\* logged (or caught by the outer except) and the loop goes on to its sleep.
\* Variant: no outer except, an exception of the read ends the function.
RsPollFailed_Uncaught(o) ==
    IF o.kind = "raise"
    THEN rs_pc' = "returned" /\ UNCHANGED <<rs_sleeps, clock, raw_registers>>
    ELSE RsSleepAndLoop

RsPollFailed(o) == RsSleepAndLoop

\* What a poll read can bring back.
PollPayloads == IF healthy THEN SensorPairs ELSE SensorPairs \cup WrongLengthPayloads

\* Lines 160-170 and 209-216: the poll read and the test of its result.
RsPollRead ==
    /\ rs_pc = "poll_read"
    /\ \E o \in SerialOutcomes(client, PollPayloads) :
          /\ client' = SessionAfterPoll(o)
          /\ rs_last_outcome' = PollOutcomeKind(o)
          /\ rs_polls' = IF PollOutcomeKind(o) = "ok" THEN rs_polls
                         ELSE Traced(PollOutcomeKind(o))
          /\ IF PollOutcomeKind(o) = "ok"
             THEN /\ raw_registers' = o.registers
                  /\ rs_pc' = "set_cond"
                  /\ UNCHANGED <<rs_sleeps, clock>>
             ELSE RsPollFailed(o)
    /\ rs_reads' = Counted(rs_reads)
    /\ UNCHANGED <<config, is_configured, hr, data_queue, rs_connect_fails, rs_fail_logs,
                   rs_connects, rs_cfg_attempts, published, gui_vars, tc_vars, aux_vars>>

\* Lines 178-185: decode, then the raw words go to WriteAddress.
RsSetConductivity ==
    /\ rs_pc = "set_cond"
    /\ hr' = setValues(hr, ADDR_CONDUCTIVITY, <<raw_registers[1], raw_registers[2]>>)
    /\ rs_pc' = "set_conc"
    /\ UNCHANGED <<config, rs_polls, client, is_configured, raw_registers, rs_last_outcome,
                   data_queue, clock, RsCounters, published, gui_vars, tc_vars, aux_vars>>

\* Lines 188-195 and 206-207: the concentration, scaled; int() of nan or inf
\* raises into the inner except, which logs and goes to the sleep.
RsSetConcentration ==
    /\ rs_pc = "set_conc"
    /\ LET cycle == Polled(raw_registers)
       IN  IF cycle.raises
           THEN /\ RsSleepAndLoop
                /\ rs_polls' = Traced("convert_error")
                /\ UNCHANGED <<hr, rs_connect_fails, rs_fail_logs, rs_connects,
                               rs_reads, rs_cfg_attempts>>
           ELSE /\ hr' = setValues(hr, ADDR_CONCENTRATION,
                                   <<cycle.concentration_register_value>>)
                /\ rs_pc' = "put_cond"
                /\ UNCHANGED <<raw_registers, clock, RsCounters, rs_polls>>
    /\ UNCHANGED <<config, client, is_configured, rs_last_outcome, data_queue,
                   published, gui_vars, tc_vars, aux_vars>>

Publish(message) ==
    /\ CanPut(data_queue)
    /\ data_queue' = put(data_queue, message)
    /\ published' = IF explore.rs_count THEN Append(published, message) ELSE published

\* Line 202.
RsPutConductivity ==
    /\ rs_pc = "put_cond"
    /\ Publish(<<"conductivity", Polled(raw_registers).conductivity_value>>)
    /\ rs_pc' = "put_conc"
    /\ UNCHANGED <<config, rs_polls, client, is_configured, raw_registers, rs_last_outcome, hr,
                   clock, RsCounters, gui_vars, tc_vars, aux_vars>>

\* Line 203.
RsPutConcentration ==
    /\ rs_pc = "put_conc"
    /\ Publish(<<"concentration", Polled(raw_registers).concentration_value>>)
    /\ rs_pc' = "put_status"
    /\ UNCHANGED <<config, rs_polls, client, is_configured, raw_registers, rs_last_outcome, hr,
                   clock, RsCounters, gui_vars, tc_vars, aux_vars>>

\* Lines 204 and 216: the status line carries time.strftime('%H:%M:%S').
RsPutStatus ==
    /\ rs_pc = "put_status"
    /\ Publish(<<"status", Time(clock)>>)
    /\ RsSleepAndLoop
    /\ rs_polls' = Traced("ok")
    /\ UNCHANGED <<config, client, is_configured, rs_last_outcome, hr,
                   rs_connect_fails, rs_fail_logs, rs_connects, rs_reads,
                   rs_cfg_attempts, gui_vars, tc_vars, aux_vars>>

RsNext ==
    \/ LoadConfig
    \/ RsConnectionOpen
    \/ RsConnect
    \/ RsConfigRead
    \/ RsConfigWrite
    \/ RsPollRead
    \/ RsSetConductivity
    \/ RsSetConcentration
    \/ RsPutConductivity
    \/ RsPutConcentration
    \/ RsPutStatus

(***************************************************************************)
(* ServerDisplayApp.process_queue: one turn of its while loop.             *)
(***************************************************************************)
UPPER_LIMIT_CONC == Double(12, 10)
LOWER_LIMIT_CONC == Double(8, 10)

\* Variant: a concentration on a limit raising the alarm of that limit.
update_advice_AlarmOnLimit(concentration_value) ==
    IF ~Less(concentration_value, UPPER_LIMIT_CONC) THEN "too high, add pure water"
    ELSE IF ~Less(LOWER_LIMIT_CONC, concentration_value)
    THEN "too low, add sodium carbonate"
    ELSE "normal"

\* Lines 340-352: concentration_value > UPPER_LIMIT_CONC, elif
\* concentration_value < LOWER_LIMIT_CONC, else.
update_advice(concentration_value) ==
    IF Less(UPPER_LIMIT_CONC, concentration_value) THEN "too high, add pure water"
    ELSE IF Less(concentration_value, LOWER_LIMIT_CONC) THEN "too low, add sodium carbonate"
    ELSE "normal"

\* Variant: the newest message taken first.
get_nowait_newest(q) == [message |-> q[Len(q)], rest |-> SubSeq(q, 1, Len(q) - 1)]

\* queue.Queue.get_nowait: the oldest message, and the queue without it.
get_nowait(q) == [message |-> Head(q), rest |-> Tail(q)]

\* Lines 151 and 154: f"{value:.2f}" and f"{value:.4f}" raise for a value
\* that is no number (TypeError for None, ValueError for a text); a float,
\* nan and inf included, is formatted.
FormatRaises(value) == value \in NonNumeric

\* Lines 137-162, run by the mainloop: one turn of "while not empty".  When
\* the format of line 151 or 154 raises, the message has been taken and the
\* assignment after it is not reached: the exception leaves the method (only
\* queue.Empty is caught) through the finally, which arranges the next call.
process_queue ==
    /\ main.pc = "mainloop"
    /\ data_queue # <<>>
    /\ LET got == get_nowait(data_queue)
           message == got.message
           key == message[1]
           value == message[2]
           shown == key \in {"conductivity", "concentration"} /\ ~FormatRaises(value)
       IN  /\ data_queue' = got.rest
           /\ processed' = Append(processed, message)
           /\ last_conductivity_value' =
                 IF key = "conductivity" /\ shown THEN value ELSE last_conductivity_value
           /\ last_concentration_value' =
                 IF key = "concentration" /\ shown THEN value ELSE last_concentration_value
           /\ advice_var' =
                 IF key = "concentration" /\ shown THEN update_advice(value) ELSE advice_var
    /\ UNCHANGED <<config, rs_polls, rs_pc, client, is_configured, raw_registers, rs_last_outcome,
                   hr, clock, RsCounters, published, tc_vars, aux_vars>>

(***************************************************************************)
(* ServerDisplayApp.log_data_point and the two history deques.  history    *)
(* holds conductivity_data and concentration_data, every point ever        *)
(* appended to each (conductivity_logged, concentration_logged) and the    *)
(* number of calls made, and set_backs, the times the local clock had been *)
(* put back when it was last read; __init__ makes the first call, before   *)
(* any message is taken, and each call arranges the next one a logging     *)
(* interval later.                                                         *)
(***************************************************************************)
TOTAL_HISTORY_HOURS == 1
DATA_LOGGING_INTERVAL_SECONDS == 60
MAX_HISTORICAL_POINTS == (TOTAL_HISTORY_HOURS * 3600) \div DATA_LOGGING_INTERVAL_SECONDS

\* deque(maxlen=MAX_HISTORICAL_POINTS).append: a full deque drops its first.
deque_append(d, item) ==
    IF Len(d) >= MAX_HISTORICAL_POINTS THEN Append(Tail(d), item) ELSE Append(d, item)

\* Line 170, datetime.now(): the local wall clock without a zone, in seconds.
\* The calls are a logging interval apart; the clock has by then been put
\* back an hour set_backs times (the end of summer time, or an operator or
\* a time service correcting it).
now(set_backs) == DATA_LOGGING_INTERVAL_SECONDS * history.calls + clock - 3600 * set_backs

\* How many times the clock may have been put back when it is next read.
SetBacks == { n \in {history.set_backs, history.set_backs + 1} : n <= MaxSetBacks }

\* Lines 168-176: what a call of log_data_point leaves in history.
logged(set_backs) ==
    LET conductivity == <<now(set_backs), last_conductivity_value>>
        concentration == <<now(set_backs), last_concentration_value>>
    IN  [conductivity_data |->
            IF last_conductivity_value # None
            THEN deque_append(history.conductivity_data, conductivity)
            ELSE history.conductivity_data,
         concentration_data |->
            IF last_concentration_value # None
            THEN deque_append(history.concentration_data, concentration)
            ELSE history.concentration_data,
         conductivity_logged |->
            IF last_conductivity_value # None
            THEN Append(history.conductivity_logged, conductivity)
            ELSE history.conductivity_logged,
         concentration_logged |->
            IF last_concentration_value # None
            THEN Append(history.concentration_logged, concentration)
            ELSE history.concentration_logged,
         calls |-> history.calls + 1,
         set_backs |-> set_backs]

\* Lines 164-179, as the mainloop runs it when its timer is due.
log_data_point ==
    /\ main.pc = "mainloop"
    /\ history.calls < explore.log_budget
    /\ \E set_backs \in SetBacks : history' = logged(set_backs)
    /\ UNCHANGED <<rs_vars, gui_vars, tc_vars, explore, healthy, main, calc>>

(***************************************************************************)
(* run_resilient_modbus_client (modbus_client.py).                         *)
(***************************************************************************)
\* What the server answers to read_holding_registers(address=0, count=3): the
\* three registers, or a frame of another length.
ServedRegisters ==
    { <<hr[0], hr[1], hr[2]>>, <<hr[0], hr[1]>>, <<hr[0], hr[1], hr[2], hr[3]>> }
\* What it answers to read_discrete_inputs(address=0, count=3): the three
\* bits update_gpio_loop wrote last, False from the start: main.py as it
\* stands does not start that loop.
ServedBits == { calc.discrete }

\* time.sleep(...), then the top of the while loop.
TcSleepAndLoop == tc_sleeps' = tc_sleeps + 1 /\ tc_pc' = "check_conn"

\* Line 34: the socket is open.
TcConnectionOpen ==
    /\ tc_pc = "check_conn"
    /\ tc_turns < MaxClientTurns
    /\ tc_turns' = tc_turns + 1
    /\ tc_client = "open"
    /\ tc_pc' = "read_di"
    /\ UNCHANGED <<aux_vars, rs_vars, gui_vars, tc_client, tc_last_outcome, tc_sleeps,
                   tc_connect_fails, tc_fail_logs, tc_connects, tc_reads>>

\* connect() of the client: nothing answers until the server thread runs.
TcConnectResults == IF main.server_thread = "running" THEN BOOLEAN ELSE {FALSE}

\* Lines 34-41: the socket is closed; connect() returns True or False.
TcConnect ==
    /\ tc_pc = "check_conn"
    /\ tc_turns < MaxClientTurns
    /\ tc_turns' = tc_turns + 1
    /\ tc_client # "open"
    /\ \E connected \in TcConnectResults :
          IF connected
          THEN /\ tc_client' = "open"
               /\ tc_connects' = tc_connects + 1
               /\ tc_pc' = "read_di"
               /\ UNCHANGED <<tc_sleeps, tc_connect_fails, tc_fail_logs>>
          ELSE /\ tc_client' = "closed"
               /\ tc_connect_fails' = tc_connect_fails + 1
               /\ tc_fail_logs' = tc_fail_logs + 1
               /\ TcSleepAndLoop
               /\ UNCHANGED tc_connects
    /\ UNCHANGED <<aux_vars, rs_vars, gui_vars, tc_last_outcome, tc_reads>>

\* Variant: an error object leaves the socket as the transport left it.
TcSessionAfterFault_ErrorKeepsSession(o) ==
    IF o.kind = "error" THEN SessionAfter(o) ELSE "closed"

\* Lines 49, 66 and 95: client.close() on an error object and in the except.
TcSessionAfterFault(o) == "closed"

\* Lines 46-50 and 93-97: an error object closes and continues (no sleep on
\* that path); an exception closes and falls to the sleep.
TcReadDiscreteInputs ==
    /\ tc_pc = "read_di"
    /\ \E o \in TransportOutcomes(tc_client, ServedBits) :
          /\ tc_last_outcome' = o.kind
          /\ IF o.kind = "ok"
             THEN tc_client' = SessionAfter(o) /\ tc_pc' = "read_hr"
                  /\ UNCHANGED tc_sleeps
             ELSE IF o.kind = "error"
             THEN tc_client' = TcSessionAfterFault(o) /\ tc_pc' = "check_conn"
                  /\ UNCHANGED tc_sleeps
             ELSE tc_client' = TcSessionAfterFault(o) /\ TcSleepAndLoop
    /\ tc_reads' = tc_reads + 1
    /\ UNCHANGED <<aux_vars, rs_vars, gui_vars, tc_connect_fails, tc_fail_logs, tc_connects,
                   tc_turns>>

\* all_registers[0:2] and all_registers[2]: a frame shorter than three
\* registers raises IndexError, a longer one is cut.
ClientDecodeRaises(regs) == Len(regs) < CLIENT_READ_COUNT

\* Lines 63-97.
TcReadHoldingRegisters ==
    /\ tc_pc = "read_hr"
    /\ \E o \in TransportOutcomes(tc_client, ServedRegisters) :
          IF o.kind = "ok" /\ ~ClientDecodeRaises(o.registers)
          THEN /\ tc_last_outcome' = "ok"
               /\ tc_client' = SessionAfter(o)
               /\ TcSleepAndLoop
          ELSE IF o.kind = "error"
          THEN /\ tc_last_outcome' = "error"
               /\ tc_client' = TcSessionAfterFault(o) /\ tc_pc' = "check_conn"
               /\ UNCHANGED tc_sleeps
          ELSE /\ tc_last_outcome' = (IF o.kind = "ok" THEN "badlen" ELSE "raise")
               /\ tc_client' = TcSessionAfterFault(o)
               /\ TcSleepAndLoop
    /\ tc_reads' = tc_reads + 1
    /\ UNCHANGED <<aux_vars, rs_vars, gui_vars, tc_connect_fails, tc_fail_logs, tc_connects,
                   tc_turns>>

TcNext ==
    \/ TcConnectionOpen
    \/ TcConnect
    \/ TcReadDiscreteInputs
    \/ TcReadHoldingRegisters

\* The two acquisition loops and the consumer of the queue, main.py in its
\* mainloop and the timer of log_data_point left out.
NextLoops == RsNext \/ process_queue \/ TcNext

SpecLoops == InitLoops /\ [][NextLoops]_vars

(***************************************************************************)
(* main.py from its import to mainloop(): the options of the TCP side,     *)
(* then the two threads.  An option is <<>> when config.ini lacks it and   *)
(* <<value>> when it holds it.                                             *)
(***************************************************************************)
DEFAULT_UNIT_ID == 1
DEFAULT_HOST == "0.0.0.0"
DEFAULT_PORT == 5020

TcpConfigs ==
    [UnitID : {<<>>, <<1>>, <<2>>}, Host : {<<>>, <<"192.168.104.220">>},
     Port : {<<>>, <<502>>}]

\* ConfigParser.get / getint with fallback=.
config_get(option, fallback) == IF option = <<>> THEN fallback ELSE option[1]

\* Variant: the three options read without fallback=, a missing one raising
\* NoOptionError out of the import.
MainLoadConfig_Required ==
    /\ main.pc = "import"
    /\ LET options == main.tcp_config
       IN  IF <<>> \in {options.UnitID, options.Host, options.Port}
           THEN main' = [main EXCEPT !.pc = "failed"]
           ELSE main' = [main EXCEPT !.DEVICE_ID = options.UnitID[1],
                                     !.SERVER_IP = options.Host[1],
                                     !.SERVER_PORT = options.Port[1],
                                     !.pc = "create_gui"]
    /\ UNCHANGED <<rs_vars, gui_vars, tc_vars, explore, healthy, calc, history>>

\* Lines 85-91.
MainLoadConfig ==
    /\ main.pc = "import"
    /\ main' = [main EXCEPT
                   !.DEVICE_ID = config_get(main.tcp_config.UnitID, DEFAULT_UNIT_ID),
                   !.SERVER_IP = config_get(main.tcp_config.Host, DEFAULT_HOST),
                   !.SERVER_PORT = config_get(main.tcp_config.Port, DEFAULT_PORT),
                   !.pc = "create_gui"]
    /\ UNCHANGED <<rs_vars, gui_vars, tc_vars, explore, healthy, calc, history>>

\* Lines 366-384 and ServerDisplayApp.__init__ (101-135): the store, the
\* queue and the window.  __init__ calls log_data_point, which finds no value
\* yet, and process_queue, which finds the queue empty; both arrange their
\* next call, which the mainloop will make.
MainCreateGui ==
    /\ main.pc = "create_gui"
    /\ \E set_backs \in SetBacks : history' = logged(set_backs)
    /\ main' = [main EXCEPT !.pc = "start_rs485"]
    /\ UNCHANGED <<rs_vars, gui_vars, tc_vars, explore, healthy, calc>>

\* Lines 386-393: the RS485 thread, which begins with its own options.
StartRs485Thread ==
    /\ main.pc = "start_rs485"
    /\ rs_pc' = "load_config"
    /\ main' = [main EXCEPT !.pc = "start_server"]
    /\ UNCHANGED <<config, rs_polls, client, is_configured, raw_registers, rs_last_outcome,
                   hr, data_queue, clock, RsCounters, published, gui_vars, tc_vars,
                   explore, healthy, calc, history>>

\* Lines 399-405: StartTcpServer on (SERVER_IP, SERVER_PORT).
StartServerThread ==
    /\ main.pc = "start_server"
    /\ main' = [main EXCEPT !.server_thread = "running", !.pc = "mainloop"]
    /\ UNCHANGED <<rs_vars, gui_vars, tc_vars, explore, healthy, calc, history>>

InitMain ==
    /\ InitThreads
    /\ rs_pc = "not_started"
    /\ explore = Exploration(MaxSleeps, MaxClock, FALSE, TRUE, MaxLogCalls)
    /\ healthy = FALSE
    /\ \E options \in TcpConfigs : main = Main("import", options, 0, "", 0, "none")
    /\ history = EmptyHistory(0)
    /\ CalcIdle

MainNext == MainLoadConfig \/ MainCreateGui \/ StartRs485Thread \/ StartServerThread

NextMain == MainNext \/ LoadConfig

SpecMain == InitMain /\ [][NextMain]_vars

(***************************************************************************)
(* The whole: main.py from its import on, the two threads it starts, the   *)
(* callbacks of its mainloop, and the TCP client beside them.              *)
(***************************************************************************)
Next == MainNext \/ RsNext \/ process_queue \/ log_data_point \/ TcNext

Spec == Init /\ [][Next]_vars

(***************************************************************************)
(* The RS485 loop on its own, for the cycles of one scenario: a poll and   *)
(* three more, the clock free to advance a second at each sleep.           *)
(***************************************************************************)
ScenarioCycles == 4

InitScenario ==
    /\ InitThreads
    /\ config = RequiredFields
    /\ rs_pc = "load_config"
    /\ explore = Exploration(ScenarioCycles, ScenarioCycles, TRUE, TRUE, MaxLogCalls)
    /\ healthy = FALSE
    /\ MainStarted
    /\ CalcIdle

SpecScenario == InitScenario /\ [][RsNext]_vars

(***************************************************************************)
(* The RS485 loop with a serial link that recovers for good at some point, *)
(* the thread being scheduled whenever it can take a step.                 *)
(***************************************************************************)
Recover ==
    /\ ~healthy
    /\ healthy' = TRUE
    /\ UNCHANGED <<rs_vars, gui_vars, tc_vars, explore, main, calc, history>>

NextLive == RsNext \/ Recover

InitLive ==
    /\ InitThreads
    /\ rs_pc = "load_config"
    /\ explore = Exploration(MaxSleeps, MaxClock, FALSE, FALSE, MaxLogCalls)
    /\ healthy = FALSE
    /\ MainStarted
    /\ CalcIdle

SpecLive == InitLive /\ [][NextLive]_vars /\ WF_vars(RsNext)

(***************************************************************************)
(* The register codec and the calibration on their own: lines 172-204 of   *)
(* the RS485 loop applied to one register pair, or to an input that is no  *)
(* number from line 188 on, then the TCP client reading and decoding what  *)
(* the pair left in the store; the register conversion of pymodbus applied *)
(* forth and back to one value; and one turn of the simulation loop        *)
(* (simulation_handler.py), which main.py does not start.                  *)
(***************************************************************************)
\* High words: 0.0, -0.0, 1.0, 1024, 1200, 1368, 12288, 12500, 8000000,
\* 2^24, +inf, -inf, NaN, -12500, and a number below 2^-7.
HiWords == {0, 32768, 16256, 17536, 17558, 17579, 17984, 17987, 19188, 19328,
            32640, 65408, 32704, 50755, 15000}
LoWords == {0, 1, 9216, 17984, 20480, 65535}

\* 45501.25 and 60501.25, where the doubles round.
RoundingPairs == { <<48448, 18225>>, <<21824, 18284>> }
CalcPairs == { <<lo, hi>> : lo \in LoWords, hi \in HiWords } \cup RoundingPairs

\* The two words of sign, exponent field and mantissa; <<>> when the
\* exponent is out of range.
pack_fields(sign, field, mant) ==
    IF field >= 255 THEN <<>>
    ELSE <<sign + field * 128 + mant \div 65536, mant % 65536>>

\* q is the mantissa rounded to 24 bits, exp the exponent field it has
\* unless the rounding carried; below 2^23 the number is subnormal.
pack_rounded(sign, q, exp) ==
    pack_fields(sign,
                IF q < 8388608 THEN 0 ELSE exp + (IF q = 16777216 THEN 1 ELSE 0),
                IF q = 16777216 THEN 0 ELSE q % 8388608)

\* The bits of a double's mantissa a float32 drops: 29, more below 2^-126.
Dropped(x) == IF x.exp + 149 < 0 - 29 THEN 0 - 149 - x.exp ELSE 29

\* struct.pack('>f', x) as its two words <<high, low>>: x rounded to the
\* nearest float32; <<>> when a finite x is too large (OverflowError).  A
\* NaN, whose payload the record does not hold, is the quiet NaN of its sign.
pack_f(x) ==
    IF x.cls = "inf" THEN <<(IF x.neg THEN 32768 ELSE 0) + 32640, 0>>
    ELSE IF x.cls = "nan" THEN <<(IF x.neg THEN 32768 ELSE 0) + 32704, 0>>
    ELSE IF IsZero(x) THEN <<IF x.neg THEN 32768 ELSE 0, 0>>
    ELSE pack_rounded(IF x.neg THEN 32768 ELSE 0,
                      BigValue(RoundShift(x.man, Dropped(x))),
                      x.exp + Dropped(x) + 150)

\* The word order of the register conversion when none is passed.
DEFAULT_WORD_ORDER == "big"

\* Variant: the word order not applied when encoding.
convert_to_registers_BigOnly(value, word_order) == pack_f(value)

\* pymodbus convert_to_registers(value, FLOAT32, word_order).
convert_to_registers(value, word_order) ==
    LET w == pack_f(value)
    IN  IF word_order = "big" \/ w = <<>> THEN w ELSE <<w[2], w[1]>>

\* pymodbus convert_from_registers(registers, FLOAT32, word_order).
convert_from_registers(registers, word_order) ==
    IF word_order = "big" THEN unpack_f(registers[1], registers[2])
    ELSE unpack_f(registers[2], registers[1])

\* simulation_handler.py lines 27-29: round(random.uniform(1.10, 1.25), 4),
\* round(random.uniform(30.0, 38.0), 2), round(random.uniform(30.0, 40.0), 2).
\* Of each range its ends and values between; 30.0, 30.25, 32.0, 38.0 and
\* 40.0 are float32 values, the others are not.
SgValues == { Double(k, 10000) : k \in {11000, 11202, 12500} }
HclValues == { Double(k, 100) : k \in {3000, 3025, 3678, 3800} }
H2o2Values == { Double(k, 100) : k \in {3200, 3764, 4000} }

\* The values the simulation loop hands to convert_to_registers.
CalcValues == SgValues \cup HclValues \cup H2o2Values

\* 32-bit values: what the register pairs decode to, those that compare
\* equal to themselves.
Float32Values ==
    { v \in { unpack_f(p[2], p[1]) : p \in CalcPairs } : v.cls \in {"fin", "inf"} }

\* Everything of a cycle but the queue and calc.
CalcUnchangedButQueue ==
    UNCHANGED <<config, rs_pc, client, is_configured, raw_registers, rs_last_outcome, hr,
                clock, RsCounters, rs_polls, gui_vars, tc_vars, explore, healthy, main,
                history>>

CalcUnchanged == CalcUnchangedButQueue /\ UNCHANGED <<data_queue, published>>

\* Lines 178-185: the decoding, and the raw words written to the store.
CalcDecode ==
    /\ calc.pc = "decode"
    /\ calc' = [calc EXCEPT
                   !.conductivity = decode_conductivity(calc.regs),
                   !.store = setValues(calc.store, ADDR_CONDUCTIVITY,
                                       <<calc.regs[1], calc.regs[2]>>),
                   !.pc = "calibrate"]
    /\ CalcUnchanged

\* Line 188, the float of line 179 handed to the calibration; an exception
\* out of the call would reach the inner except.
CalcCalibrate ==
    /\ calc.pc = "calibrate"
    /\ LET c == conductivity_to_concentration(calc.conductivity)
       IN  calc' = [calc EXCEPT !.concentration = c,
                                !.pc = IF c.cls = "raise" THEN "aborted" ELSE "scale"]
    /\ CalcUnchanged

\* Lines 35-81, conductivity_to_concentration called on its own with an
\* input that is no number, outside any poll cycle: it returns, or raises.
CalcCall ==
    /\ calc.pc = "call"
    /\ LET c == conductivity_to_concentration(calc.conductivity)
       IN  calc' = [calc EXCEPT !.concentration = c,
                                !.pc = IF c.cls = "raise" THEN "raised" ELSE "returned"]
    /\ CalcUnchanged

\* The three messages of lines 202-204.
CycleMessages(conductivity_value, concentration_value, second) ==
    << <<"conductivity", conductivity_value>>,
       <<"concentration", concentration_value>>,
       <<"status", Time(second)>> >>

\* Lines 192-195 and 206-207: the scaled value written to the store, or the
\* inner except.
CalcScale ==
    /\ calc.pc = "scale"
    /\ IF IntRaises(calc.concentration)
       THEN calc' = [calc EXCEPT !.pc = "aborted"]
       ELSE calc' = [calc EXCEPT
                        !.register = concentration_register_value(calc.concentration),
                        !.store = setValues(calc.store, ADDR_CONCENTRATION,
                                     <<concentration_register_value(calc.concentration)>>),
                        !.pc = "put_conductivity"]
    /\ CalcUnchanged

\* Line 202.
CalcPutConductivity ==
    /\ calc.pc = "put_conductivity"
    /\ Publish(<<"conductivity", calc.conductivity>>)
    /\ calc' = [calc EXCEPT !.pc = "put_concentration"]
    /\ CalcUnchangedButQueue

\* Line 203.
CalcPutConcentration ==
    /\ calc.pc = "put_concentration"
    /\ Publish(<<"concentration", calc.concentration>>)
    /\ calc' = [calc EXCEPT !.pc = "put_status"]
    /\ CalcUnchangedButQueue

\* Line 204: time.strftime('%H:%M:%S') is read at this call.
CalcPutStatus ==
    /\ calc.pc = "put_status"
    /\ Publish(<<"status", Time(clock)>>)
    /\ calc' = [calc EXCEPT !.pc = "published"]
    /\ CalcUnchangedButQueue

\* A response frame carries 16-bit words: struct.pack('>H', value).
IsWord(value) == value \in 0 .. 65535

\* concentration_raw / 100.0 of the client.
decode_scaled_int16(register) == Double(register, SCALE)

\* Variant: the word order of the client's decoding left at its default.
client_decode_DefaultOrder(all_registers) ==
    [conductivity |->
        convert_from_registers(<<all_registers[1], all_registers[2]>>, DEFAULT_WORD_ORDER),
     concentration |-> decode_scaled_int16(all_registers[3])]

\* modbus_client.py lines 70-85: all_registers[0:2] decoded with word order
\* "little", all_registers[2] divided by 100.0.
client_decode(all_registers) ==
    [conductivity |->
        convert_from_registers(<<all_registers[1], all_registers[2]>>, "little"),
     concentration |-> decode_scaled_int16(all_registers[3])]

\* modbus_client.py lines 63-97, the client reading address 0, count 3 once
\* the cycle is over: a store word that no frame can carry fails the read.
CalcClientRead ==
    /\ calc.pc \in {"published", "aborted"}
    /\ calc.regs # <<>>
    /\ LET all_registers == << calc.store[ADDR_CONDUCTIVITY],
                               calc.store[ADDR_CONDUCTIVITY + 1],
                               calc.store[ADDR_CONCENTRATION] >>
       IN  IF \E i \in 1 .. CLIENT_READ_COUNT : ~IsWord(all_registers[i])
           THEN calc' = [calc EXCEPT !.pc = "client_failed"]
           ELSE calc' = [calc EXCEPT
                            !.client_conductivity = client_decode(all_registers).conductivity,
                            !.client_concentration =
                                client_decode(all_registers).concentration,
                            !.pc = "client_read"]
    /\ CalcUnchanged

\* convert_to_registers applied to one value, for the word order given.
CalcEncode ==
    /\ calc.pc = "encode"
    /\ calc' = [calc EXCEPT
                   !.encoded = convert_to_registers(calc.conductivity, calc.order),
                   !.pc = "decode_back"]
    /\ CalcUnchanged

\* convert_from_registers applied to the two words, for the same word order.
CalcDecodeBack ==
    /\ calc.pc = "decode_back"
    /\ calc' = [calc EXCEPT
                   !.decoded = convert_from_registers(calc.encoded, calc.order),
                   !.pc = "round_trip"]
    /\ CalcUnchanged

\* simulation_handler.py lines 16-22: the options of section Simulation, each
\* with its fallback.
SIM_WRITE_ADDRESS_FALLBACK == 20
SIM_UPDATE_INTERVAL_FALLBACK == 1
SIM_ERROR_SLEEP == 5
GPIO_UPDATE_SLEEP == 1
GPIO_ERROR_SLEEP == 5
SimWriteAddresses == { SIM_WRITE_ADDRESS_FALLBACK, ADDR_CONDUCTIVITY }

\* simulation_handler.py lines 24-66, one turn of the loop: the three values
\* encoded with no word order passed, their six words written at write_addr
\* by one setValues, then the sleep; an exception of the conversion is
\* logged and followed by a sleep of five seconds.  Of the block the model
\* keeps registers 0 .. HR_SIZE - 1.
update_simulated_data_loop ==
    /\ calc.pc = "simulate"
    /\ LET words == [i \in 1 .. 3 |->
                        convert_to_registers(calc.simulated[i], DEFAULT_WORD_ORDER)]
           payload_registers == words[1] \o words[2] \o words[3]
       IN  IF \E i \in 1 .. 3 : words[i] = <<>>
           THEN calc' = [calc EXCEPT !.slept = <<SIM_ERROR_SLEEP>>, !.pc = "simulated"]
           ELSE calc' = [calc EXCEPT
                            !.store = setValues(calc.store, calc.write_addr,
                                                payload_registers),
                            !.written = <<calc.write_addr, payload_registers>>,
                            !.slept = <<SIM_UPDATE_INTERVAL_FALLBACK>>,
                            !.pc = "simulated"]
    /\ CalcUnchanged

\* gpio_handler.py lines 14-33: three Buttons, each reading either state, or
\* when gpiozero fails three MockButtons reading False, True, False.
MockInputs == << {FALSE}, {TRUE}, {FALSE} >>
ButtonInputs == << BOOLEAN, BOOLEAN, BOOLEAN >>
setup_gpio(gpio_available) == IF gpio_available THEN ButtonInputs ELSE MockInputs

\* Lines 45-49: is_pressed of the three inputs in turn.
LightStates(inputs) ==
    { <<red, yellow, green>> : red \in inputs[1], yellow \in inputs[2], green \in inputs[3] }

\* gpio_handler.py lines 36-57, one turn of the loop: the three states read
\* and written as discrete inputs 0 .. 2 by one setValues, then a sleep of one
\* second; an exception of a Button is logged and followed by a sleep of
\* five seconds, the store left as it was.
update_gpio_loop ==
    /\ calc.pc = "gpio"
    /\ Len(calc.slept) < MaxGpioTurns
    /\ \/ \E light_states \in LightStates(calc.inputs) :
             calc' = [calc EXCEPT !.discrete = light_states,
                                  !.slept = Append(calc.slept, GPIO_UPDATE_SLEEP)]
       \/ /\ calc.inputs = ButtonInputs
          /\ calc' = [calc EXCEPT !.slept = Append(calc.slept, GPIO_ERROR_SLEEP)]
    /\ CalcUnchanged

\* modbus_client.py lines 46-55: the three bits the client prints, read
\* while the loop of the inputs runs.
CalcClientReadBits ==
    /\ calc.pc = "gpio"
    /\ \E bits \in ServedBits : calc' = [calc EXCEPT !.client_bits = bits]
    /\ CalcUnchanged

InitCalc ==
    /\ InitThreads
    /\ config = RequiredFields
    /\ rs_pc = "load_config"
    /\ explore = Exploration(MaxSleeps, MaxClock, FALSE, TRUE, MaxLogCalls)
    /\ healthy = FALSE
    /\ MainStarted
    /\ \/ \E regs \in CalcPairs : calc = Calc("decode", "little", regs, None)
       \/ \E x \in NonNumeric : calc = Calc("call", "little", <<>>, x)
       \/ \E order \in {"big", "little"}, v \in CalcValues \cup Float32Values :
             calc = Calc("encode", order, <<>>, v)
       \/ \E sg \in SgValues, hcl \in HclValues, h2o2 \in H2o2Values,
             address \in SimWriteAddresses :
             calc = [Calc("simulate", DEFAULT_WORD_ORDER, <<>>, None) EXCEPT
                        !.simulated = <<sg, hcl, h2o2>>, !.write_addr = address]
       \/ \E gpio_available \in BOOLEAN :
             calc = [Calc("gpio", DEFAULT_WORD_ORDER, <<>>, None) EXCEPT
                        !.inputs = setup_gpio(gpio_available)]

NextCalc ==
    \/ CalcDecode
    \/ CalcCalibrate
    \/ CalcCall
    \/ CalcScale
    \/ CalcPutConductivity
    \/ CalcPutConcentration
    \/ CalcPutStatus
    \/ process_queue
    \/ CalcClientRead
    \/ CalcEncode
    \/ CalcDecodeBack
    \/ update_simulated_data_loop
    \/ update_gpio_loop
    \/ CalcClientReadBits

SpecCalc == InitCalc /\ [][NextCalc]_vars

(***************************************************************************)
(* The GUI on its own, the RS485 loop running but its steps left out: the  *)
(* queue holds the two values of one poll cycle, which process_queue       *)
(* takes while log_data_point is called once a logging interval.           *)
(***************************************************************************)
\* The queue holds what lines 202-203 put for the answer 12500.0.
InitHistory ==
    /\ InitThreadsQueued(
          SubSeq(CycleMessages(poll_values(<<20480, 17987>>).conductivity_value,
                               poll_values(<<20480, 17987>>).concentration_value,
                               0), 1, 2))
    /\ config = RequiredFields
    /\ rs_pc = "running"
    /\ explore = Exploration(MaxSleeps, MaxClock, FALSE, TRUE, MaxLogCalls)
    /\ healthy = FALSE
    /\ MainStarted
    /\ CalcIdle

NextHistory == process_queue \/ log_data_point

SpecHistory == InitHistory /\ [][NextHistory]_vars

(***************************************************************************)
(* process_queue on its own, applied to what the queue can hold when the   *)
(* consumer begins: up to MaxQueued messages of any key, in any order.     *)
(* The concentrations are 0.0, 0.799999, the double of 0.8 and the one     *)
(* below it, that of 12500 uS/cm, the double of 1.2 and the one above it,  *)
(* and 1000.0, above every register value.                                 *)
(***************************************************************************)
\* The doubles next to a positive double that is no power of two.
NextUp(x) == [x EXCEPT !.man = BigAdd(x.man, <<1>>)]
NextDown(x) == [x EXCEPT !.man = BigSub(x.man, <<1>>)]

GuiConductivities == { Zero, unpack_f(17987, 20480) }
GuiConcentrations ==
    { Zero, Double(799999, 1000000), NextDown(LOWER_LIMIT_CONC), LOWER_LIMIT_CONC,
      conductivity_to_concentration(unpack_f(17987, 20480)),
      UPPER_LIMIT_CONC, NextUp(UPPER_LIMIT_CONC), Double(1000, 1) }
GuiMessages ==
    { <<"conductivity", v>> : v \in GuiConductivities }
    \cup { <<"concentration", c>> : c \in GuiConcentrations }
    \cup { <<"status", Time(0)>> }

SeqsUpTo(S, n) == UNION { [1 .. k -> S] : k \in 0 .. n }

InitGui ==
    /\ \E queue \in SeqsUpTo(GuiMessages, MaxQueued) : InitThreadsQueued(queue)
    /\ config = RequiredFields
    /\ rs_pc = "running"
    /\ explore = Exploration(MaxSleeps, MaxClock, FALSE, TRUE, MaxLogCalls)
    /\ healthy = FALSE
    /\ MainStarted
    /\ CalcIdle

NextGui == process_queue

SpecGui == InitGui /\ [][NextGui]_vars

(***************************************************************************)
(* Properties.                                                             *)
(***************************************************************************)
InitialRegisters == [a \in 0 .. HR_SIZE - 1 |-> 0]
Keys == {"conductivity", "concentration", "status"}
KeySeq(s, k) == SelectSeq(s, LAMBDA m : m[1] = k)
IsPrefix(a, b) == Len(a) <= Len(b) /\ SubSeq(b, 1, Len(a)) = a

\* C1: at the top of the serial loop after a poll read that returned an error
\* object, the session is closed, so that the iteration reconnects before
\* it reads again.
C1_ErrorObjectClosesSession ==
    (rs_pc = "check_conn" /\ rs_last_outcome = "error") => client # "open"

\* C2: in both loops a read or a write is about to be issued only on a
\* session that is open.
C2_RequestsOnlyWhileConnected ==
    /\ rs_pc \in {"cfg_read", "cfg_write", "poll_read"} => client = "open"
    /\ tc_pc \in {"read_di", "read_hr"} => tc_client = "open"

\* C3: in both loops, until the first request is issued every sleep and every
\* logged connection failure is one failed connect(), so the loop that saw N
\* failures stands at its first read after N sleeps and N failure lines; and
\* no request is issued before a connect() succeeded.
C3_ConnectRetries ==
    /\ rs_reads = 0 => (rs_sleeps = rs_connect_fails /\ rs_fail_logs = rs_connect_fails)
    /\ rs_connects = 0 => rs_reads = 0
    /\ tc_reads = 0 => (tc_sleeps = tc_connect_fails /\ tc_fail_logs = tc_connect_fails)
    /\ tc_connects = 0 => tc_reads = 0

C3_Witness ==
    /\ rs_pc = "cfg_read" /\ rs_reads = 0 /\ rs_connect_fails = 1 /\ rs_sleeps = 1
    /\ tc_pc = "read_di" /\ tc_reads = 0 /\ tc_connect_fails = 1 /\ tc_sleeps = 1

\* C4: once the configuration is loaded the serial loop is always at a
\* position inside its while loop, whatever its reads returned or raised,
\* and so is the TCP client.
C4_LoopNeverEnds ==
    /\ (ConfigComplete /\ rs_pc \notin {"not_started", "load_config"}) =>
          rs_pc \in {"check_conn", "cfg_read", "cfg_write", "poll_read", "set_cond",
                     "set_conc", "put_cond", "put_conc", "put_status"}
    /\ tc_pc \in {"check_conn", "read_di", "read_hr"}

C4_Witness ==
    /\ rs_pc = "check_conn" /\ rs_last_outcome = "raise" /\ rs_sleeps = MaxSleeps
    /\ tc_pc = "check_conn" /\ tc_last_outcome = "raise"

\* C5: the one-time configuration block is entered at most once; the flag is
\* unset before it, set from the moment the block is left, on every path,
\* and stays set.
C5_LatchOneShot ==
    /\ rs_cfg_attempts <= 1
    /\ is_configured => rs_cfg_attempts = 1
    /\ (rs_cfg_attempts = 1 /\ rs_pc # "cfg_write") => is_configured

C5_Witness ==
    /\ is_configured /\ rs_cfg_attempts = 1
    /\ rs_sleeps >= 1 /\ rs_connects >= 2 /\ rs_pc = "poll_read"

\* C6: with a capacity of QueueK, once QueueK or more messages were
\* published and none taken, the queue holds exactly QueueK of them.
C6_QueueHoldsCapacity ==
    (processed = <<>> /\ Len(published) >= QueueK) => Len(data_queue) = QueueK

\* C7: whenever the loop stands at one of its three put() calls the call can
\* complete at once, however many messages the consumer has left in the queue.
C7_PublishNeverBlocks ==
    /\ rs_pc = "put_cond" => ENABLED RsPutConductivity
    /\ rs_pc = "put_conc" => ENABLED RsPutConcentration
    /\ rs_pc = "put_status" => ENABLED RsPutStatus

C7_Witness ==
    rs_pc = "put_status" /\ processed = <<>> /\ Len(data_queue) > QueueK

\* C8: for each key, the messages process_queue has taken are an initial part
\* of the messages published under that key, in the order of publication.
C8_AtMostOnceInOrder ==
    \A k \in Keys : IsPrefix(KeySeq(processed, k), KeySeq(published, k))

C8_Witness ==
    LET c == KeySeq(processed, "conductivity")
    IN  Len(c) = 2 /\ c[1] # c[2] /\ data_queue # <<>>

\* C9: at the top of the serial loop after a poll read that returned a number
\* of registers other than two, the session is closed, as after any fault.
C9_WrongLengthClosesSession ==
    (rs_pc = "check_conn" /\ rs_last_outcome = "badlen") => client # "open"

\* C10: with a required RS485 field missing the function has returned: no
\* session was created, no connect or request made, no register written, no
\* message published; and the TCP client can still make its requests.
C10_MissingFieldStartsNothing ==
    (~ConfigComplete /\ rs_pc \notin {"not_started", "load_config"}) =>
        /\ rs_pc = "returned"
        /\ client = "none"
        /\ rs_connects = 0 /\ rs_connect_fails = 0 /\ rs_reads = 0
        /\ hr = InitialRegisters
        /\ published = <<>> /\ data_queue = <<>>
        /\ tc_pc = "read_di" => ENABLED TcReadDiscreteInputs
        /\ tc_pc = "read_hr" => ENABLED TcReadHoldingRegisters

C10_Witness ==
    ~ConfigComplete /\ rs_pc = "returned" /\ tc_last_outcome = "ok" /\ tc_reads >= 2

\* The options of the TCP side that config.ini lacks.
MissingTcpOptions == { f \in {"UnitID", "Host", "Port"} : main.tcp_config[f] = <<>> }

\* C11: every option is required: when config.ini lacks one, of the RS485
\* section or UnitID, Host, Port of the TCP side, the worker that needs it
\* is not started, and no default value stands in for it.
C11_EveryFieldRequired ==
    /\ ~ConfigComplete => rs_pc \in {"not_started", "load_config", "returned"}
    /\ MissingTcpOptions # {} => main.server_thread = "none"

\* C11, amended: only the options of the RS485 section are required, the
\* loop returning when one is missing; UnitID, Host and Port are optional:
\* the import never fails, a missing one is replaced by 1, "0.0.0.0", 5020
\* and a present one is taken as it is.
C11_TcpOptionsDefaulted ==
    /\ ~ConfigComplete => rs_pc \in {"not_started", "load_config", "returned"}
    /\ main.pc # "failed"
    /\ main.pc # "import" =>
          /\ main.DEVICE_ID = (IF "UnitID" \in MissingTcpOptions THEN 1
                          ELSE main.tcp_config.UnitID[1])
          /\ main.SERVER_IP = (IF "Host" \in MissingTcpOptions THEN "0.0.0.0"
                          ELSE main.tcp_config.Host[1])
          /\ main.SERVER_PORT = (IF "Port" \in MissingTcpOptions THEN 5020
                            ELSE main.tcp_config.Port[1])

C11_Witness ==
    /\ MissingTcpOptions = {"UnitID", "Host", "Port"}
    /\ main.pc = "mainloop" /\ main.server_thread = "running"
    /\ main.DEVICE_ID = 1 /\ main.SERVER_IP = "0.0.0.0" /\ main.SERVER_PORT = 5020
    /\ ~ConfigComplete /\ rs_pc = "returned"

\* The calibration has been applied to a conductivity decoded from registers.
AfterCalibration ==
    {"scale", "put_conductivity", "put_concentration", "put_status", "published", "aborted"}
Calibrated == calc.regs # <<>> /\ calc.pc \in AfterCalibration

\* -1, 0 or 1 as the real value of a finite x that is not negative is below,
\* equal to or above num / den.
CmpRatio(x, num, den) ==
    IF x.exp >= 0 THEN BigCmp(BigShl(BigMul(x.man, Big(den)), x.exp), Big(num))
    ELSE BigCmp(BigMul(x.man, Big(den)), BigShl(Big(num), 0 - x.exp))

\* C12: for a numeric conductivity x the concentration is 0.0 when x < 0 or
\* 0.000092*x - 0.126115 < 0, x taken as the real number it is, and the
\* float 0.000092*x - 0.126115 otherwise; it is never negative.
C12_FlooredLinear ==
    (Calibrated /\ calc.conductivity.cls # "nan") =>
        LET x == calc.conductivity
            c == calc.concentration
            floored == IsNegative(x) \/ (x.cls = "fin" /\ CmpRatio(x, 126115, 92) = -1)
        IN  /\ ~IsNegative(c)
            /\ floored => c = Zero
            /\ ~floored => c = fsub(fmul(Double(92, 1000000), x), Double(126115, 1000000))

\* 1370.5 uS/cm, not negative, whose linear value is: floored to 0.0.
C12_Witness ==
    /\ calc.pc = "published" /\ calc.regs = <<20480, 17579>>
    /\ calc.conductivity = Double(13705, 10)
    /\ calc.concentration = Zero

\* The calibration has been applied to an input that is no number.
CalibratedNonNumeric ==
    /\ calc.regs = <<>> /\ calc.conductivity \in NonNumeric
    /\ calc.pc \in {"returned", "raised"}

\* C13: given an input that is no number, the calibration function fails
\* with an InvalidInput error; it returns no ordinary concentration value.
C13_NonNumericFails ==
    CalibratedNonNumeric => (calc.concentration.cls = "raise" /\ calc.pc = "raised")

\* C13, amended: given an input that float() cannot convert, the calibration
\* function raises nothing and returns the ordinary value 0.0.
C13_NonNumericGivesZero ==
    CalibratedNonNumeric => calc.concentration = Zero

C13_Witness ==
    /\ calc.conductivity = Special("text", FALSE) /\ calc.pc = "returned"
    /\ calc.concentration = Zero

\* C14: a calibration input that is not a number, inside a poll cycle, is
\* recovered with 0.0 as the concentration, and the cycle is not aborted: it
\* goes on to its puts.  The one such input a cycle can meet is the NaN a
\* register pair decodes to; line 179 yields nothing but a float.
C14_InvalidInputStillPublishes ==
    (Calibrated /\ calc.conductivity.cls = "nan") =>
        /\ calc.concentration = Zero
        /\ calc.pc # "aborted"

\* c is 1.023885 to six decimals.
IsWorkedConcentration(c) ==
    c.cls = "fin" /\ CmpRatio(c, 10238845, 10000000) >= 0
                  /\ CmpRatio(c, 10238855, 10000000) = -1

\* C18: registers [0x4640, 0x0000], the first word taken as the high half,
\* decode to 12500.0, whose concentration is 1.02389 (1.023885).
C18_WorkedExample ==
    (calc.regs = <<17984, 0>> /\ calc.pc = "published") =>
        /\ unpack_f(calc.regs[1], calc.regs[2]) = Double(12500, 1)
        /\ IsWorkedConcentration(
               conductivity_to_concentration(unpack_f(calc.regs[1], calc.regs[2])))

\* C18, amended: registers [0x5000, 0x4643], the second word taken as the
\* high half as the loop takes it, decode to 12500.0, whose concentration is
\* 1.023885 and whose register value is 102; 0x46400000 is 12288.0.
C18_WorkedExampleAsDecoded ==
    /\ (calc.regs = <<20480, 17987>> /\ calc.pc = "published") =>
          /\ calc.conductivity = Double(12500, 1)
          /\ IsWorkedConcentration(calc.concentration)
          /\ calc.register = 102
    /\ (calc.regs = <<0, 17984>> /\ calc.pc = "published") =>
          calc.conductivity = Double(12288, 1)

C18_Witness ==
    /\ calc.regs = <<20480, 17987>> /\ calc.pc = "published"
    /\ calc.register = 102 /\ calc.store[ADDR_CONCENTRATION] = 102

\* A value a float32 holds: an infinity, a zero, or a number of 24
\* significant bits (fewer below 2^-126) within the exponent range.
IsFloat32(v) ==
    \/ v.cls = "inf"
    \/ /\ v.cls = "fin"
       /\ \/ IsZero(v)
          \/ LET drop == IF v.exp + 149 < 0 - 29 THEN 0 - 149 - v.exp ELSE 29
             IN  /\ v.exp + DOUBLE_BITS <= 128
                 /\ BigShl(BigShr(v.man, drop), drop) = v.man

\* C19: for each word order, a 32-bit value encoded into two registers and
\* decoded with the same word order is the value again.
C19_RoundTrip ==
    (calc.pc = "round_trip" /\ IsFloat32(calc.conductivity))
        => calc.decoded = calc.conductivity

C19_Witness ==
    /\ calc.pc = "round_trip" /\ calc.order = "little"
    /\ calc.conductivity = Double(12500, 1)
    /\ calc.encoded = <<20480, 17987>>
    /\ calc.decoded = calc.conductivity

ClientFaults == {"error", "raise", "badlen"}

\* C15: in the TCP client a read that returned an error object is handled
\* as one that raised: at the top of the loop after either the connection
\* is closed, and a read is issued only once connect() has opened it again.
C15_ErrorObjectAsException ==
    /\ (tc_pc = "check_conn" /\ tc_last_outcome \in ClientFaults) => tc_client = "closed"
    /\ (tc_pc \in {"read_di", "read_hr"} /\ tc_last_outcome \in ClientFaults)
          => (tc_client = "open" /\ tc_connects >= 2)

C15_Witness ==
    /\ tc_last_outcome = "error" /\ tc_pc = "read_di"
    /\ tc_client = "open" /\ tc_connects = 2 /\ tc_sleeps = 0

\* The time each status message carries, in the order of their publication.
SampleTimes == [i \in 1 .. Len(KeySeq(published, "status")) |->
                   KeySeq(published, "status")[i][2].exp]

\* C16: a poll that timed out followed by three successful polls leaves
\* exactly three Samples published, each with a timestamp greater than the
\* one before.
C16_ThreeSamplesIncreasing ==
    (/\ Len(rs_polls) = 4
     /\ rs_polls[1] \in {"error", "raise"}
     /\ \A i \in 2 .. 4 : rs_polls[i] = "ok")
    => /\ \A k \in Keys : Len(KeySeq(published, k)) = 3
       /\ \A i \in 1 .. 2 : SampleTimes[i] < SampleTimes[i + 1]

\* C17: once the link has recovered for good, a cycle that begins ends in a
\* published Sample.
C17_EventuallyPublishes ==
    (healthy /\ rs_pc = "check_conn" /\ CycleMayBegin) ~> (rs_pc = "put_status")

\* The addresses update_from_rs485_loop writes.
WrittenAddresses == {ADDR_CONDUCTIVITY, ADDR_CONDUCTIVITY + 1, ADDR_CONCENTRATION}

\* C20: when a cycle whose poll brought two registers is over, the store
\* holds the two words at WriteAddress and WriteAddress+1 and their scaled
\* concentration at WriteAddressConcentration; no other address is written,
\* and until a poll read has returned the store is as it was built.
C20_PollWritesStore ==
    /\ \A a \in DOMAIN hr \ WrittenAddresses : hr[a] = InitialRegisters[a]
    /\ rs_last_outcome = "none" => hr = InitialRegisters
    /\ (rs_pc = "check_conn" /\ rs_last_outcome = "ok") =>
          LET cycle == Polled(<<hr[ADDR_CONDUCTIVITY], hr[ADDR_CONDUCTIVITY + 1]>>)
          IN  ~cycle.raises /\ hr[ADDR_CONCENTRATION] = cycle.concentration_register_value

\* The last n elements of a sequence, all of it when it has fewer.
LastOf(s, n) == SubSeq(s, (IF Len(s) > n THEN Len(s) - n ELSE 0) + 1, Len(s))

HistoryBuffers ==
    { <<history.conductivity_data, history.conductivity_logged>>,
      <<history.concentration_data, history.concentration_logged>> }

\* A buffer holds at most MAX_HISTORICAL_POINTS entries.
WithinCapacity(b) == Len(b[1]) <= MAX_HISTORICAL_POINTS

\* A buffer is the most recent of the points ever appended to it, in the
\* order they were appended: when full it gave up its oldest entry for each
\* new one.
EvictsOldest(b) == b[1] = LastOf(b[2], MAX_HISTORICAL_POINTS)

\* The timestamps of the entries of a buffer never decrease.
Chronological(b) == \A i \in 1 .. Len(b[1]) - 1 : b[1][i][1] <= b[1][i + 1][1]

\* C21: each history buffer holds at most MAX_HISTORICAL_POINTS entries;
\* appending to a full buffer evicts exactly its oldest entry; and the
\* timestamps of its entries are in non-decreasing order.
C21_HistoryRingBuffer ==
    \A b \in HistoryBuffers : WithinCapacity(b) /\ EvictsOldest(b) /\ Chronological(b)

\* What the consumer holds as the latest value of a key.
LatestValue(k) ==
    IF k = "conductivity" THEN last_conductivity_value ELSE last_concentration_value

\* What the consumer renders from: the ghost processed left out.
ConsumerState == <<last_conductivity_value, last_concentration_value, advice_var>>

\* C22: with the queue drained, the latest value of conductivity and of
\* concentration is the value of the last message published under that key,
\* whatever came before it or under other keys (None while none was
\* published); and taking a message whose value is already the latest of
\* its key leaves the consumer's state as it was.
C22_LatestValuePerKey ==
    /\ [](data_queue = <<>> =>
            \A k \in {"conductivity", "concentration"} :
               LatestValue(k) = IF KeySeq(published, k) = <<>> THEN None
                                ELSE KeySeq(published, k)[Len(KeySeq(published, k))][2])
    /\ [][(/\ data_queue # <<>>
           /\ processed' = Append(processed, Head(data_queue))
           /\ Head(data_queue)[1] \in {"conductivity", "concentration"}
           /\ Head(data_queue)[2] = LatestValue(Head(data_queue)[1]))
          => UNCHANGED ConsumerState]_vars

\* Two conductivities and then the second again, a status in between; the
\* concentration never published.
C22_Witness ==
    /\ data_queue = <<>> /\ Len(processed) = 3
    /\ processed[1] = <<"conductivity", Zero>>
    /\ processed[2][1] = "status"
    /\ processed[3] = <<"conductivity", Zero>>
    /\ last_conductivity_value = Zero /\ last_concentration_value = None

\* C24: the advice is the one of the last concentration taken (the opening
\* text while none was): too high exactly when it is above 1.2, too low
\* exactly when it is below 0.8, normal exactly from 0.8 to 1.2, both limits
\* included; messages of other keys leave it alone.
C24_AdviceByLimits ==
    IF last_concentration_value = None THEN advice_var = "Waiting for data..."
    ELSE LET c == last_concentration_value
             high == c.cls = "inf" \/ (c.cls = "fin" /\ CmpRatio(c, 12, 10) = 1)
             low == c.cls = "fin" /\ CmpRatio(c, 8, 10) = -1
         IN  /\ advice_var \in {"too high, add pure water", "too low, add sodium carbonate",
                                "normal"}
             /\ advice_var = "too high, add pure water" <=> high
             /\ advice_var = "too low, add sodium carbonate" <=> low
             /\ advice_var = "normal" <=> (~high /\ ~low)

\* The double next above the upper limit, a conductivity of 0.0, then the
\* upper limit itself.
C24_Witness ==
    /\ Len(processed) = 3
    /\ processed[1] = <<"concentration", NextUp(Double(12, 10))>>
    /\ processed[2] = <<"conductivity", Zero>>
    /\ processed[3] = <<"concentration", Double(12, 10)>>
    /\ advice_var = "normal"

\* C23: what the client decodes as the concentration is the concentration
\* the cycle computed, cut to two decimals: a number, not above the computed
\* one and less than 0.01 below it.
C23_ClientConcentrationTruncated ==
    calc.pc = "client_read" =>
        LET c == calc.concentration
            d == calc.client_concentration
        IN  /\ c.cls = "fin" /\ d.cls = "fin"
            /\ ~Less(c, d)
            /\ CmpRatio(c, calc.store[ADDR_CONCENTRATION] + 1, SCALE) = -1

\* C27: the conductivity the client decodes from the two words of the store
\* is the one the serial loop decoded from the sensor's answer, the words
\* of the store being those of the answer in their order: the first the
\* low half, the second the high half, for both.
C27_SameConductivityBothSides ==
    calc.pc = "client_read" =>
        /\ <<calc.store[ADDR_CONDUCTIVITY], calc.store[ADDR_CONDUCTIVITY + 1]>> = calc.regs
        /\ calc.client_conductivity = calc.conductivity
        /\ calc.client_conductivity = unpack_f(calc.regs[2], calc.regs[1])

C27_Witness ==
    /\ calc.pc = "client_read" /\ calc.regs = <<20480, 17987>>
    /\ calc.client_conductivity = Double(12500, 1)
    /\ calc.client_concentration = Double(102, 100)

\* C28: the value a cycle writes to the concentration register is a 16-bit
\* word, whatever pair the sensor returned.
C28_ConcentrationRegisterIsWord ==
    (/\ calc.regs # <<>>
     /\ calc.pc \in {"put_conductivity", "put_concentration", "put_status", "published",
                     "client_read", "client_failed"})
        => calc.register \in 0 .. 65535

\* How many requests the one-time configuration block can have issued.
ConfigRequests == {0, rs_cfg_attempts, 2 * rs_cfg_attempts}

\* C25: at the top of either loop every iteration made so far has slept:
\* the client has slept once for each turn it began; the serial loop once
\* for each failed connect and once for each poll read.
C25_SleepEveryIteration ==
    /\ tc_pc = "check_conn" => tc_sleeps = tc_turns
    /\ rs_pc = "check_conn" =>
          \E n \in ConfigRequests : rs_sleeps = rs_connect_fails + (rs_reads - n)

\* C26: once a Sample has been published, the store a reader sees is always
\* consistent: the concentration register is the scaled concentration of the
\* conductivity pair the store holds.
C26_StoreAlwaysConsistent ==
    KeySeq(published, "status") # <<>> =>
        LET cycle == Polled(<<hr[ADDR_CONDUCTIVITY], hr[ADDR_CONDUCTIVITY + 1]>>)
        IN  ~cycle.raises /\ hr[ADDR_CONCENTRATION] = cycle.concentration_register_value
====
